---- MODULE Spec2Model ----
(***************************************************************************)
(* A model of the mirror-trading pipeline of onchainbot.                   *)
(*                                                                         *)
(*   core/positions.py   the position book: open / update / close under    *)
(*                       one asyncio lock                                  *)
(*   ingestion/sol.py    the event bus and _process_and_enqueue; the       *)
(*                       Helius and Jito subscribers and their decoders    *)
(*   ingestion/eth.py    the EVM swap-log subscriber                       *)
(*   exec/eth.py, src/onchainbot/exec/sol.py                               *)
(*                       mirror_buy / mirror_sell of the two chains        *)
(*   core/risk.py        the risk configuration and should_exit            *)
(*                                                                         *)
(* Decimal quantities are modelled as exact rationals [n, d] in lowest     *)
(* terms (the 28-digit rounding of the decimal context is not modelled).   *)
(* The book's tasks are interleaved at every statement of the critical     *)
(* section, which contains every interleaving the asyncio scheduler can    *)
(* produce (it switches tasks at awaits only).                             *)
(***************************************************************************)
EXTENDS Integers, Sequences, FiniteSets, TLC

(***************************************************************************)
(* Bounds of the model.                                                    *)
(***************************************************************************)
\* calls of open/update/close made in one behaviour
MaxOps == 3
\* events the feeds decode in one behaviour
MaxEvents == 6
\* _MAX_QUEUE_SIZE (5000 in ingestion/sol.py), scaled down to the capacity of
\* the spec's back-pressure scenario
MAX_QUEUE_SIZE == 3
\* frames the subscribers receive in one behaviour
MaxFrames == 2
\* connection failures of the subscribers in one behaviour
MaxFails == 7
\* calls of mirror_buy / mirror_sell made in one behaviour
MaxCalls == 3

(***************************************************************************)
(* Constants of the program.                                               *)
(***************************************************************************)
\* subscribe_helius, subscribe_jito: backoff = min(backoff * 2, 30)
BACKOFF_CAP == 30
\* exec/sol.py: MAX_RETRIES = 3
MAX_RETRIES == 3
\* core/risk.py: the default of TTL_SECONDS
DEFAULT_TTL == 86400

(***************************************************************************)
(* Decimal arithmetic (decimal.Decimal), as exact rationals.               *)
(***************************************************************************)
\* math.gcd, by Euclid's steps on the values of its arguments
GcdOf[a \in Nat, b \in Nat] == IF b = 0 THEN a ELSE GcdOf[b, a % b]

Gcd(a, b) == GcdOf[a, b]

Abs(x) == IF x < 0 THEN -x ELSE x

\* the rational n/d (d # 0) in lowest terms with a positive denominator
DecOf[n \in Int, d \in Int] ==
    LET s == IF d < 0 THEN -1 ELSE 1
        g == Gcd(Abs(n), Abs(d))
    IN  [n |-> (s * n) \div g, d |-> (s * d) \div g]

Dec(n, d) == DecOf[n, d]

DecInt(i) == [n |-> i, d |-> 1]

DecAdd(x, y) == Dec(x.n * y.d + y.n * x.d, x.d * y.d)

DecMul(x, y) == Dec(x.n * y.n, x.d * y.d)

\* y # 0
DecDiv(x, y) == Dec(x.n * y.d, x.d * y.n)

DecLt(x, y) == x.n * y.d < y.n * x.d

DecLe(x, y) == x.n * y.d <= y.n * x.d

Zero == DecInt(0)

(***************************************************************************)
(* Inputs: the events and arguments the callers pass.                      *)
(***************************************************************************)
Tasks == {"t1", "t2"}

NoTask == "none"

Wallets == {"w1", "w2"}

Tokens == {"X"}

\* (tx_hash, timestamp) of the events observed
Stamps == {<<"txA", 1>>, <<"txB", 2>>}

\* (amount_in, amount_out_min) pairs: amount_in >= 0, amount_out_min > 0
Amounts == {<<100, 10>>, <<60, 5>>, <<0, 5>>}

\* the mirror ratio the callers pass to open, in (0, 1]
Ratios == {Dec(1, 2)}

\* class TradeEvent
TradeEvent(w, tin, tout, ain, aout, tx, ts) ==
    [wallet |-> w, token_in |-> tin, token_out |-> tout,
     amount_in |-> DecInt(ain), amount_out_min |-> DecInt(aout),
     tx_hash |-> tx, timestamp |-> ts]

Events ==
    { TradeEvent(w, "USDC", tok, a[1], a[2], s[1], s[2]) :
        w \in Wallets, tok \in Tokens, a \in Amounts, s \in Stamps }

\* class Position
Position(w, tok, size, avg, opened, last, tx) ==
    [wallet |-> w, token |-> tok, size |-> size, avg_price |-> avg,
     opened_at |-> opened, last_update |-> last, origin_tx |-> tx]

\* the calls a task can make
OpenCall(e, r) ==
    [kind |-> "open", event |-> <<e>>, ratio |-> <<r>>, key |-> <<e.wallet, e.token_out>>]

UpdateCall(e) ==
    [kind |-> "update", event |-> <<e>>, ratio |-> <<>>, key |-> <<e.wallet, e.token_out>>]

CloseCall(w, tok) ==
    [kind |-> "close", event |-> <<>>, ratio |-> <<>>, key |-> <<w, tok>>]

NoCall == [kind |-> "none", event |-> <<>>, ratio |-> <<>>, key |-> <<>>]

\* what a call gives back: a value or the exception raised
Returned(p) == [status |-> "ok", pos |-> <<p>>]

ReturnedNone == [status |-> "ok", pos |-> <<>>]

Raised(exc) == [status |-> exc, pos |-> <<>>]

NoResult == [status |-> "none", pos |-> <<>>]

VARIABLES
    mirror_ratio, \* the ratio configured for this run, passed to every open
    positions,   \* _positions: (wallet, token) -> Position
    lock,        \* _lock: the task holding it, or NoTask
    pc,          \* where each task is in its call
    call,        \* the call each task is making
    result,      \* what the finished call returned or raised
    nops,        \* calls started so far
    seqBook,     \* history: the book of the calls run one by one in lock order
    expect,      \* history: what each call returns in that sequential run
    event_bus,   \* event_bus: the queue of decoded events
    fpc,         \* where each feed subscriber is in _process_and_enqueue
    evt,         \* the event each subscriber is enqueueing
    produced,    \* events decoded so far
    drops,       \* "dropped oldest event" warnings logged so far
    enqueued,    \* history: every event put on the bus, in order
    delivered,   \* history: every event the consumer took, in order
    spc,         \* where each subscriber is in its reconnect loop
    backoff,     \* backoff: the seconds each subscriber sleeps after a failure
    fails,       \* history: failures of each subscriber since its last subscription
    slept,       \* history: the seconds of the sleep each subscriber is in (0: none)
    frame,       \* msg: the frame each subscriber is handling
    nframes,     \* frames received so far
    nfails,      \* failures so far
    quoteCall,   \* history: the oracle call of each decoder, and its answer
    epc,         \* where the EVM subscriber is in subscribe_and_process
    elog,        \* message: the frame the EVM subscriber is handling
    published,   \* history: every event published on the Redis channel
    nlogs,       \* frames the EVM subscriber has received so far
    xpc,         \* where the call of each chain's engine is
    xop,         \* the operation called: "buy" or "sell"
    ladder,      \* priority_fees: the fee ladder the call was given
    idx,         \* idx: the rung of the ladder the call is at
    impact,      \* the price impact the quote reported
    attempts,    \* history: bundles the call has submitted
    outcome,     \* how the call ended
    ret,         \* what the call returned: <<>> or <<(tx_id, price)>>
    tx,          \* tx: the gas fields of the EVM transaction
    target,      \* target: the block the EVM bundle is sent for
    ncalls,      \* calls started so far
    sent,        \* history: the bundles the call has submitted, in order
    naps,        \* history: the seconds of the sleeps of the call, in order
    header,      \* header: the latest block _send_bundle read after a failure
    env,         \* os.environ: the values of MIRROR_RATIO and TTL_SECONDS
    boot,        \* the import of core/risk.py: "start", "running" or "fatal"
    cfg,         \* the module's MIRROR_RATIO and TTL_SECONDS once loaded
    time,        \* time.time()
    rpc,         \* where the risk loop is: "idle" or "sell"
    watched,     \* the key the risk loop is selling
    bal,         \* the wallet balance of the latest should_exit call
    verdict      \* what the latest should_exit call returned

bookVars == <<mirror_ratio, positions, lock, pc, call, result, nops, seqBook, expect>>

busVars == <<event_bus, fpc, evt, produced, drops, enqueued, delivered>>

feedVars == <<spc, backoff, fails, slept, frame, nframes, nfails, quoteCall>>

evmVars == <<epc, elog, published, nlogs>>

execVars == <<xpc, xop, ladder, idx, impact, attempts, outcome, ret, tx, target, ncalls,
              sent, naps, header>>

riskVars == <<env, boot, cfg, time, rpc, watched, bal, verdict>>

vars == <<bookVars, busVars, feedVars, evmVars, execVars, riskVars>>

\* what the book's operations leave alone, what the bus's do, and what the
\* subscribers' do
notBookVars == <<busVars, feedVars, evmVars, execVars, riskVars>>

notBusVars == <<bookVars, feedVars, evmVars, execVars, riskVars>>

notFeedVars == <<bookVars, fpc, produced, delivered, evmVars, execVars, riskVars>>

notEvmVars == <<bookVars, busVars, feedVars, execVars, riskVars>>

\* what the execution engines leave alone, the position book apart
notExecVars == <<busVars, feedVars, evmVars, riskVars>>

\* what the risk configuration and the risk loop leave alone, the book apart
notRiskVars == <<busVars, feedVars, evmVars, execVars>>

\* the fields of the book other than the positions
bookRest == <<mirror_ratio, lock, pc, call, result, nops, seqBook, expect>>

(***************************************************************************)
(* The position book: core/positions.py                                    *)
(***************************************************************************)
\* dict operations
Has(book, key) == key \in DOMAIN book

Store(book, key, p) == [k \in DOMAIN book \cup {key} |-> IF k = key THEN p ELSE book[k]]

Remove(book, key) == [k \in DOMAIN book \ {key} |-> book[k]]

\* a variant of NewPosition: the size is not scaled by the mirror ratio
NewPositionUnscaled(e, ratio) ==
    Position(e.wallet, e.token_out,
             e.amount_out_min,
             DecDiv(e.amount_in, e.amount_out_min),
             e.timestamp, e.timestamp, e.tx_hash)

\* open, lines 58-68: the position a trade event opens
NewPosition(e, ratio) ==
    Position(e.wallet, e.token_out,
             DecMul(e.amount_out_min, ratio),
             DecDiv(e.amount_in, e.amount_out_min),
             e.timestamp, e.timestamp, e.tx_hash)

\* a variant of UpdatedPosition: the added quantity is scaled by the mirror ratio
UpdatedPositionScaled(pos, e) ==
    LET new_qty   == DecMul(e.amount_out_min, mirror_ratio)
        new_price == DecDiv(e.amount_in, e.amount_out_min)
        total_qty == DecAdd(pos.size, new_qty)
    IN  [pos EXCEPT
            !.avg_price = DecDiv(DecAdd(DecMul(pos.avg_price, pos.size),
                                        DecMul(new_price, new_qty)),
                                 total_qty),
            !.size = total_qty,
            !.last_update = e.timestamp]

\* a variant of UpdatedPosition: the position is stamped with the event that
\* updates it
UpdatedPositionRestamped(pos, e) ==
    LET new_qty   == e.amount_out_min
        new_price == DecDiv(e.amount_in, e.amount_out_min)
        total_qty == DecAdd(pos.size, new_qty)
    IN  [pos EXCEPT
            !.avg_price = DecDiv(DecAdd(DecMul(pos.avg_price, pos.size),
                                        DecMul(new_price, new_qty)),
                                 total_qty),
            !.size = total_qty,
            !.last_update = e.timestamp,
            !.opened_at = e.timestamp,
            !.origin_tx = e.tx_hash]

\* update, lines 84-90: the position after a further trade event
UpdatedPosition(pos, e) ==
    LET new_qty   == e.amount_out_min
        new_price == DecDiv(e.amount_in, e.amount_out_min)
        total_qty == DecAdd(pos.size, new_qty)
    IN  [pos EXCEPT
            !.avg_price = DecDiv(DecAdd(DecMul(pos.avg_price, pos.size),
                                        DecMul(new_price, new_qty)),
                                 total_qty),
            !.size = total_qty,
            !.last_update = e.timestamp]

\* variants of the guards: the check is missing
OpenRejectsNever(book, key) == FALSE

UpdateRejectsNever(book, key) == FALSE

\* the guards of the three operations
OpenRejects(book, key) == Has(book, key)

UpdateRejects(book, key) == ~Has(book, key)

CloseRejects(book, key) == ~Has(book, key)

\* a variant of LockFree: the critical section is entered without the lock
LockAlwaysFree(t) == TRUE

\* async with _lock: the lock is free to take
LockFree(t) == lock = NoTask

\* a variant of Released: the lock stays with the task that leaves the block
ReleasedNever == lock

\* async with _lock, on leaving the block (by return or by exception)
Released == NoTask

Calls ==
    { OpenCall(e, mirror_ratio) : e \in Events }
        \cup { UpdateCall(e) : e \in Events }
        \cup { CloseCall(w, tok) : w \in Wallets, tok \in Tokens }

\* a task calls open, update or close with one of the calls cs: the key is
\* computed, the lock awaited
Invoke(t, cs) ==
    /\ pc[t] = "idle"
    /\ nops < MaxOps
    /\ \E c \in cs :
        /\ call' = [call EXCEPT ![t] = c]
        /\ pc' = [pc EXCEPT ![t] = "acquire"]
    /\ nops' = nops + 1
    /\ UNCHANGED <<notBookVars, mirror_ratio, positions, lock, result, seqBook, expect>>

Call(t) == Invoke(t, Calls)

\* the calls on the key of one wallet, made with one event
KeyCalls == { c \in Calls : c.key[1] = "w1" /\ (c.event = <<>> \/ c.event[1].tx_hash = "txA") }

CallKey(t) == Invoke(t, KeyCalls)

\* one call run alone on a book: <<book after, result>>
SeqRun(book, c) ==
    IF c.kind = "open" THEN
        IF Has(book, c.key) THEN <<book, Raised("ValueError")>>
        ELSE LET p == NewPosition(c.event[1], c.ratio[1])
             IN  <<Store(book, c.key, p), Returned(p)>>
    ELSE IF c.kind = "update" THEN
        IF ~Has(book, c.key) THEN <<book, Raised("KeyError")>>
        ELSE <<Store(book, c.key, UpdatedPosition(book[c.key], c.event[1])), ReturnedNone>>
    ELSE
        IF ~Has(book, c.key) THEN <<book, Raised("KeyError")>>
        ELSE <<Remove(book, c.key), Returned(book[c.key])>>

\* async with _lock: entering the critical section
Acquire(t) ==
    /\ pc[t] = "acquire"
    /\ LockFree(t)
    /\ lock' = t
    /\ pc' = [pc EXCEPT ![t] = call[t].kind]
    /\ seqBook' = SeqRun(seqBook, call[t])[1]
    /\ expect' = [expect EXCEPT ![t] = SeqRun(seqBook, call[t])[2]]
    /\ UNCHANGED <<notBookVars, mirror_ratio, positions, call, result, nops>>

\* open, lines 56-57: if key in _positions: raise ValueError
OpenCheck(t) ==
    /\ pc[t] = "open"
    /\ IF OpenRejects(positions, call[t].key)
       THEN /\ result' = [result EXCEPT ![t] = Raised("ValueError")]
            /\ pc' = [pc EXCEPT ![t] = "done"]
            /\ lock' = Released
       ELSE /\ pc' = [pc EXCEPT ![t] = "insert"]
            /\ UNCHANGED <<result, lock>>
    /\ UNCHANGED <<notBookVars, mirror_ratio, positions, call, nops, seqBook, expect>>

\* open, lines 58-70: build the position, insert it, return it
OpenInsert(t) ==
    /\ pc[t] = "insert"
    /\ LET p == NewPosition(call[t].event[1], call[t].ratio[1])
       IN  /\ positions' = Store(positions, call[t].key, p)
           /\ result' = [result EXCEPT ![t] = Returned(p)]
    /\ pc' = [pc EXCEPT ![t] = "done"]
    /\ lock' = Released
    /\ UNCHANGED <<notBookVars, mirror_ratio, call, nops, seqBook, expect>>

\* update, lines 80-82: pos = _positions.get(key); if pos is None: raise KeyError
UpdateGet(t) ==
    /\ pc[t] = "update"
    /\ IF UpdateRejects(positions, call[t].key)
       THEN /\ result' = [result EXCEPT ![t] = Raised("KeyError")]
            /\ pc' = [pc EXCEPT ![t] = "done"]
            /\ lock' = Released
       ELSE /\ pc' = [pc EXCEPT ![t] = "write"]
            /\ UNCHANGED <<result, lock>>
    /\ UNCHANGED <<notBookVars, mirror_ratio, positions, call, nops, seqBook, expect>>

\* update, lines 84-90: the position object is changed in place
UpdateWrite(t) ==
    /\ pc[t] = "write"
    /\ positions' =
         IF Has(positions, call[t].key)
         THEN Store(positions, call[t].key,
                  UpdatedPosition(positions[call[t].key], call[t].event[1]))
         ELSE positions
    /\ result' = [result EXCEPT ![t] = ReturnedNone]
    /\ pc' = [pc EXCEPT ![t] = "done"]
    /\ lock' = Released
    /\ UNCHANGED <<notBookVars, mirror_ratio, call, nops, seqBook, expect>>

\* a variant of ClosePop: the position is read with get, not removed with pop
ClosePopKeeps(t) ==
    /\ pc[t] = "close"
    /\ IF CloseRejects(positions, call[t].key)
       THEN result' = [result EXCEPT ![t] = Raised("KeyError")]
       ELSE result' = [result EXCEPT ![t] = Returned(positions[call[t].key])]
    /\ pc' = [pc EXCEPT ![t] = "done"]
    /\ lock' = Released
    /\ UNCHANGED <<notBookVars, mirror_ratio, positions, call, nops, seqBook, expect>>

\* close, lines 99-102: pos = _positions.pop(key, None); raise KeyError or return pos
ClosePop(t) ==
    /\ pc[t] = "close"
    /\ IF CloseRejects(positions, call[t].key)
       THEN /\ result' = [result EXCEPT ![t] = Raised("KeyError")]
            /\ UNCHANGED positions
       ELSE /\ result' = [result EXCEPT ![t] = Returned(positions[call[t].key])]
            /\ positions' = Remove(positions, call[t].key)
    /\ pc' = [pc EXCEPT ![t] = "done"]
    /\ lock' = Released
    /\ UNCHANGED <<notBookVars, mirror_ratio, call, nops, seqBook, expect>>

\* the caller takes the result; the task is free for its next call
Return(t) ==
    /\ pc[t] = "done"
    /\ pc' = [pc EXCEPT ![t] = "idle"]
    /\ call' = [call EXCEPT ![t] = NoCall]
    /\ result' = [result EXCEPT ![t] = NoResult]
    /\ expect' = [expect EXCEPT ![t] = NoResult]
    /\ UNCHANGED <<notBookVars, mirror_ratio, positions, lock, nops, seqBook>>

\* _lock = asyncio.Lock(); _positions = {}
InitBook ==
    /\ mirror_ratio \in Ratios
    /\ positions = <<>>
    /\ lock = NoTask
    /\ pc = [t \in Tasks |-> "idle"]
    /\ call = [t \in Tasks |-> NoCall]
    /\ result = [t \in Tasks |-> NoResult]
    /\ nops = 0
    /\ seqBook = <<>>
    /\ expect = [t \in Tasks |-> NoResult]

BookNext ==
    \E t \in Tasks :
        \/ Call(t)
        \/ Acquire(t)
        \/ OpenCheck(t)
        \/ OpenInsert(t)
        \/ UpdateGet(t)
        \/ UpdateWrite(t)
        \/ ClosePop(t)
        \/ Return(t)

(***************************************************************************)
(* The event bus: ingestion/sol.py                                         *)
(***************************************************************************)
\* the two subscribers main() runs: subscribe_helius and subscribe_jito
Feeds == {"helius", "jito"}

NoEvt == [feed |-> "none", id |-> 0]

\* _process_and_enqueue, line 144: q.qsize() > _MAX_QUEUE_SIZE
\* a variant of Overflows: the test allows one event more
OverflowsLate(q) == Len(q) > MAX_QUEUE_SIZE + 1

Overflows(q) == Len(q) > MAX_QUEUE_SIZE

\* _process_and_enqueue, lines 144-146: the drop loop; <<queue left, drops made>>
RECURSIVE DropLoop(_, _)
DropLoop(q, n) ==
    IF Overflows(q) THEN DropLoop(Tail(q), n + 1) ELSE <<q, n>>

\* a subscriber has decoded an event and calls _process_and_enqueue: the drop
\* loop runs (it has no await), then the task awaits the put
ProcessAndEnqueue(f) ==
    /\ fpc[f] = "recv"
    /\ produced < MaxEvents
    /\ produced' = produced + 1
    /\ evt' = [evt EXCEPT ![f] = [feed |-> f, id |-> produced + 1]]
    /\ event_bus' = DropLoop(event_bus, 0)[1]
    /\ drops' = drops + DropLoop(event_bus, 0)[2]
    /\ fpc' = [fpc EXCEPT ![f] = "put"]
    /\ UNCHANGED <<notBusVars, enqueued, delivered>>

\* a put that jumps the queue
PutFront(f) ==
    /\ fpc[f] = "put"
    /\ event_bus' = <<evt[f]>> \o event_bus
    /\ enqueued' = Append(enqueued, evt[f])
    /\ evt' = [evt EXCEPT ![f] = NoEvt]
    /\ fpc' = [fpc EXCEPT ![f] = "recv"]
    /\ UNCHANGED <<notBusVars, produced, drops, delivered>>

\* _process_and_enqueue, line 148: q.put(evt); the queue has no maxsize, the put
\* never waits and the timeout of line 149 is never taken
Put(f) ==
    /\ fpc[f] = "put"
    /\ event_bus' = Append(event_bus, evt[f])
    /\ enqueued' = Append(enqueued, evt[f])
    /\ evt' = [evt EXCEPT ![f] = NoEvt]
    /\ fpc' = [fpc EXCEPT ![f] = "recv"]
    /\ UNCHANGED <<notBusVars, produced, drops, delivered>>

\* the consumer of the bus (the orchestrator): event_bus.get()
Get ==
    /\ event_bus # <<>>
    /\ event_bus' = Tail(event_bus)
    /\ delivered' = Append(delivered, Head(event_bus))
    /\ UNCHANGED <<notBusVars, fpc, evt, produced, drops, enqueued>>

\* event_bus = Queue()
InitBus ==
    /\ event_bus = <<>>
    /\ fpc = [f \in Feeds |-> "recv"]
    /\ evt = [f \in Feeds |-> NoEvt]
    /\ produced = 0
    /\ drops = 0
    /\ enqueued = <<>>
    /\ delivered = <<>>

BusNext ==
    \/ \E f \in Feeds : ProcessAndEnqueue(f)
    \/ \E f \in Feeds : Put(f)
    \/ Get

(***************************************************************************)
(* The feed subscribers: ingestion/sol.py, subscribe_helius and            *)
(* subscribe_jito with their decoders.  A frame is the text the socket     *)
(* delivers; a JSON object is a function from its keys, a missing key is   *)
(* a key outside its domain.                                               *)
(***************************************************************************)
\* Python's None
None == "None"

\* the JSON object {}
Empty == [k \in {} |-> "None"]

\* dict.get(k, default)
Field(d, k, default) == IF k \in DOMAIN d THEN d[k] ELSE default

\* JSON scalars: a number, or a string
JNum(v) == [t |-> "num", v |-> v]

JStr(x) == [t |-> "str", v |-> x]

\* int(x) raises on a string that is not a numeral (the only strings here)
CanInt(j) == j.t = "num"

IntOf(j) == j.v

\* main(): the addresses both subscribers are started with
addresses == {"w1"}

\* the swap notifications of the two feeds
HeliusMsg(ty, acct, route, amt) ==
    [params |-> [result |-> [type |-> ty, account |-> acct,
                             transaction |-> "txA",
                             swap |-> [route |-> route, amountIn |-> amt]]]]

JitoMsg(ty, acct, route, amt) ==
    [data |-> [type |-> ty, account |-> acct, transaction |-> "txA",
               route |-> route, amountIn |-> amt]]

\* the frames a feed can send: swaps of a watched and of another account, a
\* swap routed over three hops, a message of another type, a one-hop route, an amount that is no number, a
\* swap without account and transaction, an acknowledgement, and text that is
\* not JSON
HeliusMsgs ==
    { HeliusMsg("swap", a, <<"M1", "M2">>, JNum(1000)) : a \in Wallets }
        \cup { HeliusMsg("swap", "w1", <<"M1", "M2", "M3">>, JNum(250)),
               HeliusMsg("transfer", "w1", <<"M1", "M2">>, JNum(1000)),
               HeliusMsg("swap", "w1", <<"M1">>, JNum(1000)),
               HeliusMsg("swap", "w1", <<"M1", "M2">>, JStr("abc")),
               [params |-> [result |-> [type |-> "swap",
                    swap |-> [route |-> <<"M1", "M2">>, amountIn |-> JNum(1000)]]]],
               Empty }

JitoMsgs ==
    { JitoMsg("swap", a, <<"M1", "M2">>, JNum(1000)) : a \in Wallets }
        \cup { JitoMsg("swap", "w1", <<"M1", "M2", "M3">>, JNum(250)),
               JitoMsg("transfer", "w1", <<"M1", "M2">>, JNum(1000)),
               JitoMsg("swap", "w1", <<"M1">>, JNum(1000)),
               JitoMsg("swap", "w1", <<"M1", "M2">>, JStr("abc")),
               [data |-> [type |-> "swap", route |-> <<"M1", "M2">>,
                          amountIn |-> JNum(1000)]],
               Empty }

NoFrame == [json |-> FALSE, data |-> Empty]

BadJson == [json |-> FALSE, data |-> [text |-> "{"]]

Frames(f) ==
    {BadJson} \cup { [json |-> TRUE, data |-> m] :
                        m \in IF f = "helius" THEN HeliusMsgs ELSE JitoMsgs }

\* get_jupiter_price: the amounts the oracle can answer (its failures and
\* time-outs are the action QuoteFails)
Quotes == {DecInt(1500), Zero}

\* time.time() at the moment an event is built
Times == {1}

\* decode_helius_swap line 83, decode_jito_swap line 116: the object holding
\* type, account and transaction
SwapResult(f, msg) ==
    IF f = "helius"
    THEN Field(Field(msg, "params", Empty), "result", Empty)
    ELSE Field(msg, "data", Empty)

\* decode_helius_swap line 86: the object holding route and amountIn (the
\* Jito message holds them beside the type, lines 119-123)
SwapInfo(f, msg) ==
    IF f = "helius"
    THEN Field(SwapResult(f, msg), "swap", Empty)
    ELSE SwapResult(f, msg)

\* the decoders up to the oracle call: "none" (return None), "raise" (an
\* exception, caught and logged, return None) or "quote" (the oracle is asked)
BeforeQuote(f, msg) ==
    IF Field(SwapResult(f, msg), "type", None) # "swap" THEN "none"
    ELSE IF Len(Field(SwapInfo(f, msg), "route", <<>>)) < 2 THEN "none"
    ELSE IF ~CanInt(Field(SwapInfo(f, msg), "amountIn", JNum(0))) THEN "raise"
    ELSE "quote"

\* lines 93 and 124: get_jupiter_price(route[0], route[-1], amount_in)
QuoteArgs(f, msg) ==
    LET route == Field(SwapInfo(f, msg), "route", <<>>)
    IN  <<route[1], route[Len(route)],
          IntOf(Field(SwapInfo(f, msg), "amountIn", JNum(0)))>>

\* no oracle call is under way
NoQuoteCall == [args |-> <<>>, amount |-> <<>>]

\* a variant of SwapEvent: the output token is the second hop of the route
SwapEventSecondHop(f, msg, quote, now) ==
    LET res == SwapResult(f, msg)
        route == Field(SwapInfo(f, msg), "route", <<>>)
        amount_in == IntOf(Field(SwapInfo(f, msg), "amountIn", JNum(0)))
    IN  [wallet |-> Field(res, "account", None),
         tokenIn |-> route[1],
         tokenOut |-> route[2],
         amountIn |-> DecInt(amount_in),
         amountOutMin |-> quote,
         txHash |-> Field(res, "transaction", None),
         timestamp |-> now]

\* the decoders after the oracle has answered: the event dict
SwapEvent(f, msg, quote, now) ==
    LET res == SwapResult(f, msg)
        route == Field(SwapInfo(f, msg), "route", <<>>)
        amount_in == IntOf(Field(SwapInfo(f, msg), "amountIn", JNum(0)))
    IN  [wallet |-> Field(res, "account", None),
         tokenIn |-> route[1],
         tokenOut |-> route[Len(route)],
         amountIn |-> DecInt(amount_in),
         amountOutMin |-> quote,
         txHash |-> Field(res, "transaction", None),
         timestamp |-> now]

\* except Exception: the handler logs and starts the sleep of backoff seconds
Except(f) ==
    /\ nfails < MaxFails
    /\ nfails' = nfails + 1
    /\ fails' = [fails EXCEPT ![f] = @ + 1]
    /\ slept' = [slept EXCEPT ![f] = backoff[f]]
    /\ spc' = [spc EXCEPT ![f] = "sleep"]

\* websockets.connect succeeds
Connect(f) ==
    /\ spc[f] = "connect"
    /\ spc' = [spc EXCEPT ![f] = "subscribe"]
    /\ UNCHANGED <<notFeedVars, quoteCall, event_bus, evt, drops, enqueued,
                   backoff, fails, slept, frame, nframes, nfails>>

\* websockets.connect raises
ConnectFails(f) ==
    /\ spc[f] = "connect"
    /\ Except(f)
    /\ UNCHANGED <<notFeedVars, quoteCall, event_bus, evt, drops, enqueued,
                   backoff, frame, nframes>>

\* ws.send of the subscription request succeeds: backoff = 1
Subscribe(f) ==
    /\ spc[f] = "subscribe"
    /\ backoff' = [backoff EXCEPT ![f] = 1]
    /\ fails' = [fails EXCEPT ![f] = 0]
    /\ spc' = [spc EXCEPT ![f] = "listen"]
    /\ UNCHANGED <<notFeedVars, quoteCall, event_bus, evt, drops, enqueued,
                   slept, frame, nframes, nfails>>

\* ws.send raises
SubscribeFails(f) ==
    /\ spc[f] = "subscribe"
    /\ Except(f)
    /\ UNCHANGED <<notFeedVars, quoteCall, event_bus, evt, drops, enqueued,
                   backoff, frame, nframes>>

\* async for msg in ws: the next frame arrives
Receive(f) ==
    /\ spc[f] = "listen"
    /\ nframes < MaxFrames
    /\ nframes' = nframes + 1
    /\ \E fr \in Frames(f) : frame' = [frame EXCEPT ![f] = fr]
    /\ spc' = [spc EXCEPT ![f] = "handle"]
    /\ UNCHANGED <<notFeedVars, quoteCall, event_bus, evt, drops, enqueued,
                   backoff, fails, slept, nfails>>

\* async for msg in ws: the connection breaks (ConnectionClosedError)
ConnectionLost(f) ==
    /\ spc[f] = "listen"
    /\ Except(f)
    /\ UNCHANGED <<notFeedVars, quoteCall, event_bus, evt, drops, enqueued,
                   backoff, frame, nframes>>

\* async for msg in ws: the peer closes normally, the iteration ends and
\* while True connects again at once
ConnectionClosed(f) ==
    /\ spc[f] = "listen"
    /\ spc' = [spc EXCEPT ![f] = "connect"]
    /\ UNCHANGED <<notFeedVars, quoteCall, event_bus, evt, drops, enqueued,
                   backoff, fails, slept, frame, nframes, nfails>>

\* json.loads(msg) raises on text that is not JSON: the exception leaves the
\* loop and the connection and reaches the handler of the subscriber
JsonFails(f) ==
    /\ spc[f] = "handle"
    /\ ~frame[f].json
    /\ Except(f)
    /\ frame' = [frame EXCEPT ![f] = NoFrame]
    /\ UNCHANGED <<notFeedVars, quoteCall, event_bus, evt, drops, enqueued,
                   backoff, nframes>>

\* the decoder returns None before it asks the oracle
DecodeNone(f) ==
    /\ spc[f] = "handle"
    /\ frame[f].json
    /\ BeforeQuote(f, frame[f].data) \in {"none", "raise"}
    /\ frame' = [frame EXCEPT ![f] = NoFrame]
    /\ spc' = [spc EXCEPT ![f] = "listen"]
    /\ UNCHANGED <<notFeedVars, quoteCall, event_bus, evt, drops, enqueued,
                   backoff, fails, slept, nframes, nfails>>

\* the decoder awaits get_jupiter_price
AskQuote(f) ==
    /\ spc[f] = "handle"
    /\ frame[f].json
    /\ BeforeQuote(f, frame[f].data) = "quote"
    /\ spc' = [spc EXCEPT ![f] = "quote"]
    /\ quoteCall' = [quoteCall EXCEPT
                        ![f] = [args |-> QuoteArgs(f, frame[f].data), amount |-> <<>>]]
    /\ UNCHANGED <<notFeedVars, event_bus, evt, drops, enqueued,
                   backoff, fails, slept, frame, nframes, nfails>>

\* the oracle fails or times out: the decoder logs and returns None
QuoteFails(f) ==
    /\ spc[f] = "quote"
    /\ frame' = [frame EXCEPT ![f] = NoFrame]
    /\ spc' = [spc EXCEPT ![f] = "listen"]
    /\ quoteCall' = [quoteCall EXCEPT ![f] = NoQuoteCall]
    /\ UNCHANGED <<notFeedVars, event_bus, evt, drops, enqueued,
                   backoff, fails, slept, nframes, nfails>>

\* the oracle answers: the decoder returns the event, which is a non-empty
\* dict, and the subscriber calls _process_and_enqueue: the drop loop runs, then
\* the task awaits the put
QuoteReturns(f) ==
    /\ spc[f] = "quote"
    /\ \E quote \in Quotes, now \in Times :
          /\ evt' = [evt EXCEPT ![f] = SwapEvent(f, frame[f].data, quote, now)]
          /\ quoteCall' = [quoteCall EXCEPT ![f].amount = <<quote>>]
    /\ event_bus' = DropLoop(event_bus, 0)[1]
    /\ drops' = drops + DropLoop(event_bus, 0)[2]
    /\ spc' = [spc EXCEPT ![f] = "put"]
    /\ UNCHANGED <<notFeedVars, enqueued,
                   backoff, fails, slept, frame, nframes, nfails>>

\* q.put(evt) returns and the subscriber waits for the next frame
Enqueue(f) ==
    /\ spc[f] = "put"
    /\ event_bus' = Append(event_bus, evt[f])
    /\ enqueued' = Append(enqueued, evt[f])
    /\ evt' = [evt EXCEPT ![f] = NoEvt]
    /\ frame' = [frame EXCEPT ![f] = NoFrame]
    /\ spc' = [spc EXCEPT ![f] = "listen"]
    /\ quoteCall' = [quoteCall EXCEPT ![f] = NoQuoteCall]
    /\ UNCHANGED <<notFeedVars, drops,
                   backoff, fails, slept, nframes, nfails>>

\* a sleep without the cap of 30 seconds
WakeUncapped(f) ==
    /\ spc[f] = "sleep"
    /\ backoff' = [backoff EXCEPT ![f] = @ * 2]
    /\ slept' = [slept EXCEPT ![f] = 0]
    /\ spc' = [spc EXCEPT ![f] = "connect"]
    /\ UNCHANGED <<notFeedVars, quoteCall, event_bus, evt, drops, enqueued,
                   fails, frame, nframes, nfails>>

\* asyncio.sleep(backoff) returns: backoff = min(backoff * 2, 30)
Wake(f) ==
    /\ spc[f] = "sleep"
    /\ backoff' = [backoff EXCEPT ![f] =
                      IF @ * 2 < BACKOFF_CAP THEN @ * 2 ELSE BACKOFF_CAP]
    /\ slept' = [slept EXCEPT ![f] = 0]
    /\ spc' = [spc EXCEPT ![f] = "connect"]
    /\ UNCHANGED <<notFeedVars, quoteCall, event_bus, evt, drops, enqueued,
                   fails, frame, nframes, nfails>>

\* backoff = 1
InitFeed ==
    /\ spc = [f \in Feeds |-> "connect"]
    /\ backoff = [f \in Feeds |-> 1]
    /\ fails = [f \in Feeds |-> 0]
    /\ slept = [f \in Feeds |-> 0]
    /\ frame = [f \in Feeds |-> NoFrame]
    /\ nframes = 0
    /\ nfails = 0
    /\ quoteCall = [f \in Feeds |-> NoQuoteCall]

FeedNext ==
    \E f \in Feeds :
        \/ Connect(f)
        \/ ConnectFails(f)
        \/ Subscribe(f)
        \/ SubscribeFails(f)
        \/ Receive(f)
        \/ ConnectionLost(f)
        \/ ConnectionClosed(f)
        \/ JsonFails(f)
        \/ DecodeNone(f)
        \/ AskQuote(f)
        \/ QuoteFails(f)
        \/ QuoteReturns(f)
        \/ Enqueue(f)
        \/ Wake(f)

(***************************************************************************)
(* The EVM swap-log subscriber: ingestion/eth.py.  An address is written   *)
(* by its hex digits (the "0x" in front is left out); a topic is a 32-byte *)
(* word whose last 40 digits are the address.                              *)
(***************************************************************************)
\* the addresses that occur, in the spellings that occur
HexAddrs == {"AB", "ab", "CD"}

\* str.lower()
Lower(a) == CASE a = "AB" -> "ab" [] a = "CD" -> "cd" [] OTHER -> a

\* the wallets file: the watched address in its checksum spelling
WalletsFile == {"AB"}

\* load_wallets: the file's addresses, in lower case
wallets == { Lower(a) : a \in WalletsFile }

\* _SWAP_TOPIC0, and the topic of another event
SWAP_TOPIC0 == "Swap"

Topic(a) == [pad |-> "000000000000000000000000", digits |-> a]

\* topics[i][-40:]
Last40(topic) == topic.digits

\* the log notifications of the node
EvmLog(topics, data) ==
    [params |-> [result |-> [topics |-> topics, data |-> data,
                             transactionHash |-> "txE"]]]

\* swaps between watched and other addresses in upper- and lower-case
\* spelling, a log of another event, a swap log without its indexed topics,
\* a swap log whose data is not the five words, the subscription
\* acknowledgement, and text that is not JSON
EvmFrames ==
    {BadJson}
        \cup { [json |-> TRUE, data |-> m] : m \in
                 { EvmLog(<<SWAP_TOPIC0, Topic(a), Topic(b)>>, "words") :
                       a \in HexAddrs, b \in {"ab", "CD"} }
                 \cup { EvmLog(<<"Transfer", Topic("AB"), Topic("CD")>>, "words"),
                        EvmLog(<<SWAP_TOPIC0>>, "words"),
                        EvmLog(<<SWAP_TOPIC0, Topic("AB"), Topic("CD")>>, "junk"),
                        Empty } }

\* decode_swap_event: <<>> for None, or the decoded event
decode_swap_event(log) ==
    LET topics == Field(log, "topics", <<>>)
    IN  IF topics = <<>> \/ topics[1] # SWAP_TOPIC0 THEN <<>>
        ELSE IF Len(topics) < 3 THEN <<>>
        ELSE IF Field(log, "data", "") # "words" THEN <<>>
        ELSE << [transactionHash |-> Field(log, "transactionHash", None),
                 sender |-> Lower(Last40(topics[2])),
                 recipient |-> Lower(Last40(topics[3]))] >>

\* subscribe_and_process, lines 112-120: the event of a frame, <<>> when the
\* loop continues without one
EventOf(data) ==
    IF "params" \notin DOMAIN data THEN <<>>
    ELSE IF "result" \notin DOMAIN data.params THEN <<>>
    ELSE decode_swap_event(data.params.result)

\* line 122: the filter by monitored wallets
Monitored(event) == event.sender \in wallets \/ event.recipient \in wallets

\* websockets.connect succeeds
EvmConnect ==
    /\ epc = "connect"
    /\ epc' = "subscribe"
    /\ UNCHANGED <<notEvmVars, elog, published, nlogs>>

\* websockets.connect raises: except logs, and finally closes the client
EvmConnectFails ==
    /\ epc = "connect"
    /\ epc' = "finally"
    /\ UNCHANGED <<notEvmVars, elog, published, nlogs>>

\* ws.send of eth_subscribe succeeds
EvmSubscribe ==
    /\ epc = "subscribe"
    /\ epc' = "recv"
    /\ UNCHANGED <<notEvmVars, elog, published, nlogs>>

\* ws.send raises
EvmSubscribeFails ==
    /\ epc = "subscribe"
    /\ epc' = "finally"
    /\ UNCHANGED <<notEvmVars, elog, published, nlogs>>

\* message = await ws.recv()
EvmRecv ==
    /\ epc = "recv"
    /\ nlogs < MaxFrames
    /\ nlogs' = nlogs + 1
    /\ \E fr \in EvmFrames : elog' = fr
    /\ epc' = "handle"
    /\ UNCHANGED <<notEvmVars, published>>

\* ws.recv() raises: the connection broke or was closed
EvmRecvFails ==
    /\ epc = "recv"
    /\ epc' = "finally"
    /\ UNCHANGED <<notEvmVars, elog, published, nlogs>>

\* json.loads(message) raises
EvmJsonFails ==
    /\ epc = "handle"
    /\ ~elog.json
    /\ elog' = NoFrame
    /\ epc' = "finally"
    /\ UNCHANGED <<notEvmVars, published, nlogs>>

\* no params, no result, no event, or an event of no monitored wallet:
\* the loop goes on to the next frame
EvmSkip ==
    /\ epc = "handle"
    /\ elog.json
    /\ \/ EventOf(elog.data) = <<>>
       \/ EventOf(elog.data) # <<>> /\ ~Monitored(EventOf(elog.data)[1])
    /\ elog' = NoFrame
    /\ epc' = "recv"
    /\ UNCHANGED <<notEvmVars, published, nlogs>>

\* publish_event: the event of a monitored wallet goes to the channel
EvmPublish ==
    /\ epc = "handle"
    /\ elog.json
    /\ EventOf(elog.data) # <<>>
    /\ Monitored(EventOf(elog.data)[1])
    /\ published' = Append(published, EventOf(elog.data)[1])
    /\ elog' = NoFrame
    /\ epc' = "recv"
    /\ UNCHANGED <<notEvmVars, nlogs>>

\* publish_event: redis raises, the failure is logged and the loop goes on
EvmPublishFails ==
    /\ epc = "handle"
    /\ elog.json
    /\ EventOf(elog.data) # <<>>
    /\ Monitored(EventOf(elog.data)[1])
    /\ elog' = NoFrame
    /\ epc' = "recv"
    /\ UNCHANGED <<notEvmVars, published, nlogs>>

\* finally: redis_client.close(), and subscribe_and_process returns
EvmReturn ==
    /\ epc = "finally"
    /\ epc' = "returned"
    /\ UNCHANGED <<notEvmVars, elog, published, nlogs>>

InitEvm ==
    /\ epc = "connect"
    /\ elog = NoFrame
    /\ published = <<>>
    /\ nlogs = 0

EvmNext ==
    \/ EvmConnect
    \/ EvmConnectFails
    \/ EvmSubscribe
    \/ EvmSubscribeFails
    \/ EvmRecv
    \/ EvmRecvFails
    \/ EvmJsonFails
    \/ EvmSkip
    \/ EvmPublish
    \/ EvmPublishFails
    \/ EvmReturn

(***************************************************************************)
(* The execution engines: exec/eth.py (EVM, Flashbots bundles) and         *)
(* src/onchainbot/exec/sol.py (Solana, Jito bundles with a fee ladder).    *)
(* One call of mirror_buy or mirror_sell is in flight per chain.           *)
(***************************************************************************)
Chains == {"evm", "sol"}

\* the event the engines are asked to mirror, and the key of its position
ExecEvent == TradeEvent("w1", "USDC", "X", 100, 10, "txA", 1)

ExecKey == <<ExecEvent.wallet, ExecEvent.token_out>>

\* the price impacts a quote can report: under, at and over the limit
Impacts == {Dec(3, 10), Dec(2, 5), Dec(1, 2)}

\* exec/sol.py line 94: Decimal("0.4")
IMPACT_LIMIT == Dec(2, 5)

\* exec/sol.py line 69: the default of priority_fees
DEFAULT_FEES == <<50000, 100000, 200000>>

\* the ladders a caller can pass: empty, shorter than, equal to and longer
\* than the default
Ladders ==
    { SubSeq(DEFAULT_FEES, 1, n) : n \in {0, 2, 3} }
        \cup { DEFAULT_FEES \o <<400000>> }

\* the price the quote (EVM) or the swap response (Solana) gives
QuotePrice == Dec(3, 2)

\* the gasPrice of the 0x quote, and the base fees the latest header can carry
\* (0: a block without baseFeePerGas)
QuoteGasPrice == 10

BaseFees == {0, 20}

\* the chain head when the bundle is built
Heads == {100}

\* the blocks the head has advanced by when the first bundle has failed
Advance == {0, 2}

NoTx == [gasPrice |-> 0, maxFeePerGas |-> 0]

NoImpact == Dec(-1, 1)

NoHeader == [number |-> 0, baseFeePerGas |-> 0]

\* exec/sol.py lines 108-112: the signed transaction, serialized once
Bundle == "vtxn"

\* exec/sol.py line 115: the body of a sendBundle request
SolBody(fee) == [bundle |-> Bundle, priorityFeeLamports |-> fee]

\* signer.sign_transaction(tx): the signature covers the gas fields
Sign(t) == <<"signed", t.gasPrice, t.maxFeePerGas>>

\* _send_bundle lines 82-84 and 94-96: the bundle sent for a block
EvmBundle(t, block) == [tx |-> t, signed_transaction |-> Sign(t), target_block_number |-> block]

\* a call ends: its outcome and what it hands back
Ends(c, how, value) ==
    /\ outcome' = [outcome EXCEPT ![c] = how]
    /\ ret' = [ret EXCEPT ![c] = value]
    /\ xpc' = [xpc EXCEPT ![c] = "done"]

\* the (tx_id, price) a confirmed call returns
Receipt(c) == <<[tx_id |-> "sig", price |-> QuotePrice]>>

\* the book call the orchestrator makes after a confirmed submission: open for
\* a buy of a key not held, update for a buy of a key held, close for a sell
BookCall(c) ==
    IF xop[c] = "sell" THEN CloseCall(ExecKey[1], ExecKey[2])
    ELSE IF Has(positions, ExecKey) THEN UpdateCall(ExecEvent)
    ELSE OpenCall(ExecEvent, mirror_ratio)

\* the orchestrator or the risk loop calls mirror_buy
CallBuy(c) ==
    /\ xpc[c] = "idle"
    /\ ncalls < MaxCalls
    /\ ncalls' = ncalls + 1
    /\ xop' = [xop EXCEPT ![c] = "buy"]
    /\ \E l \in Ladders :
          ladder' = [ladder EXCEPT ![c] = IF c = "sol" THEN l ELSE <<>>]
    /\ xpc' = [xpc EXCEPT ![c] = IF c = "sol" THEN "supply" ELSE "quote"]
    /\ UNCHANGED <<notExecVars, sent, naps, header, bookVars,
                   idx, impact, attempts, outcome, ret, tx, target>>

\* the risk loop calls mirror_sell for the position held (the Solana
\* mirror_sell hands its keyword arguments, the ladder among them, to
\* mirror_buy)
CallSell(c) ==
    /\ xpc[c] = "idle"
    /\ ncalls < MaxCalls
    /\ Has(positions, ExecKey)
    /\ ncalls' = ncalls + 1
    /\ xop' = [xop EXCEPT ![c] = "sell"]
    /\ \E l \in Ladders :
          ladder' = [ladder EXCEPT ![c] = IF c = "sol" THEN l ELSE <<>>]
    /\ xpc' = [xpc EXCEPT ![c] = IF c = "sol" THEN "supply" ELSE "quote"]
    /\ UNCHANGED <<notExecVars, sent, naps, header, bookVars,
                   idx, impact, attempts, outcome, ret, tx, target>>

\* exec/sol.py line 76: rpc.get_token_supply answers
SolSupply ==
    /\ xpc["sol"] = "supply"
    /\ xpc' = [xpc EXCEPT !["sol"] = "quote"]
    /\ UNCHANGED <<notExecVars, sent, naps, header, bookVars,
                   xop, ladder, idx, impact, attempts, outcome, ret, tx, target, ncalls>>

\* exec/sol.py lines 88-95: the quote answers; over the limit the call raises
\* SlippageExceeded
SolQuote ==
    /\ xpc["sol"] = "quote"
    /\ \E i \in Impacts :
          /\ impact' = [impact EXCEPT !["sol"] = i]
          /\ IF DecLt(IMPACT_LIMIT, i)
             THEN Ends("sol", "REJECTED_SLIPPAGE", <<>>)
             ELSE /\ xpc' = [xpc EXCEPT !["sol"] = "swap"]
                  /\ UNCHANGED <<outcome, ret>>
    /\ UNCHANGED <<notExecVars, sent, naps, header, bookVars,
                   xop, ladder, idx, attempts, tx, target, ncalls>>

\* exec/sol.py lines 98-114: the swap transaction is built and signed, and the
\* loop over the ladder starts; over an empty ladder the function ends
\* without a return statement
SolSwap ==
    /\ xpc["sol"] = "swap"
    /\ idx' = [idx EXCEPT !["sol"] = 0]
    /\ IF ladder["sol"] = <<>>
       THEN Ends("sol", "RETURNED_NONE", <<>>)
       ELSE /\ xpc' = [xpc EXCEPT !["sol"] = "send"]
            /\ UNCHANGED <<outcome, ret>>
    /\ UNCHANGED <<notExecVars, sent, naps, header, bookVars,
                   xop, ladder, impact, attempts, tx, target, ncalls>>

\* an engine that books the position itself when the relay accepts the bundle
SolSendOkBooks ==
    /\ xpc["sol"] = "send"
    /\ attempts' = [attempts EXCEPT !["sol"] = @ + 1]
    /\ sent' = [sent EXCEPT !["sol"] = Append(@, SolBody(ladder["sol"][idx["sol"] + 1]))]
    /\ Ends("sol", "CONFIRMED", Receipt("sol"))
    /\ positions' = SeqRun(positions, BookCall("sol"))[1]
    /\ UNCHANGED <<notExecVars, naps, header, bookRest,
                   xop, ladder, idx, impact, tx, target, ncalls>>

\* exec/sol.py lines 117-124: the relay accepts the bundle
SolSendOk ==
    /\ xpc["sol"] = "send"
    /\ attempts' = [attempts EXCEPT !["sol"] = @ + 1]
    /\ sent' = [sent EXCEPT !["sol"] = Append(@, SolBody(ladder["sol"][idx["sol"] + 1]))]
    /\ Ends("sol", "CONFIRMED", Receipt("sol"))
    /\ UNCHANGED <<notExecVars, naps, header, bookVars,
                   xop, ladder, idx, impact, tx, target, ncalls>>

\* exec/sol.py lines 125-134: the relay rejects the bundle; the error is
\* raised at the third attempt, otherwise the call sleeps 2 ** idx seconds
SolSendFails ==
    /\ xpc["sol"] = "send"
    /\ attempts' = [attempts EXCEPT !["sol"] = @ + 1]
    /\ sent' = [sent EXCEPT !["sol"] = Append(@, SolBody(ladder["sol"][idx["sol"] + 1]))]
    /\ IF idx["sol"] + 1 >= MAX_RETRIES
       THEN /\ Ends("sol", "EXHAUSTED", <<>>)
            /\ UNCHANGED naps
       ELSE /\ xpc' = [xpc EXCEPT !["sol"] = "sleep"]
            /\ naps' = [naps EXCEPT !["sol"] = Append(@, 2 ^ idx["sol"])]
            /\ UNCHANGED <<outcome, ret>>
    /\ UNCHANGED <<notExecVars, header, bookVars,
                   xop, ladder, idx, impact, tx, target, ncalls>>

\* exec/sol.py line 114: the sleep is over and the loop takes the next rung;
\* after the last rung the function ends without a return statement
SolNextRung ==
    /\ xpc["sol"] = "sleep"
    /\ idx' = [idx EXCEPT !["sol"] = @ + 1]
    /\ IF idx["sol"] + 1 < Len(ladder["sol"])
       THEN /\ xpc' = [xpc EXCEPT !["sol"] = "send"]
            /\ UNCHANGED <<outcome, ret>>
       ELSE Ends("sol", "RETURNED_NONE", <<>>)
    /\ UNCHANGED <<notExecVars, sent, naps, header, bookVars,
                   xop, ladder, impact, attempts, tx, target, ncalls>>

\* exec/eth.py lines 106-116 (127-136 for a sell): the 0x quote answers and the
\* transaction is made of it; the price impact it reports is not read
EvmQuote ==
    /\ xpc["evm"] = "quote"
    /\ \E i \in Impacts : impact' = [impact EXCEPT !["evm"] = i]
    /\ tx' = [gasPrice |-> QuoteGasPrice, maxFeePerGas |-> 0]
    /\ xpc' = [xpc EXCEPT !["evm"] = "block"]
    /\ UNCHANGED <<notExecVars, sent, naps, header, bookVars,
                   xop, ladder, idx, attempts, outcome, ret, target, ncalls>>

\* _send_bundle lines 79-80: target = block_number + 1
EvmTarget ==
    /\ xpc["evm"] = "block"
    /\ \E head \in Heads : target' = head + 1
    /\ xpc' = [xpc EXCEPT !["evm"] = "send"]
    /\ UNCHANGED <<notExecVars, sent, naps, header, bookVars,
                   xop, ladder, idx, impact, attempts, outcome, ret, tx, ncalls>>

\* _send_bundle lines 82-85 and 94-97: the relay accepts the bundle
EvmSendOk ==
    /\ xpc["evm"] \in {"send", "resend"}
    /\ attempts' = [attempts EXCEPT !["evm"] = @ + 1]
    /\ sent' = [sent EXCEPT !["evm"] = Append(@, EvmBundle(tx, target))]
    /\ Ends("evm", "CONFIRMED", Receipt("evm"))
    /\ UNCHANGED <<notExecVars, naps, header, bookVars,
                   xop, ladder, idx, impact, tx, target, ncalls>>

\* _send_bundle lines 84-86: the first bundle fails
EvmSendFails ==
    /\ xpc["evm"] = "send"
    /\ attempts' = [attempts EXCEPT !["evm"] = @ + 1]
    /\ sent' = [sent EXCEPT !["evm"] = Append(@, EvmBundle(tx, target))]
    /\ xpc' = [xpc EXCEPT !["evm"] = "header"]
    /\ UNCHANGED <<notExecVars, naps, header, bookVars,
                   xop, ladder, idx, impact, outcome, ret, tx, target, ncalls>>

\* a variant of EvmEscalate: the second bundle is sent for the block after
\* the latest header
EvmEscalateRetargets ==
    /\ xpc["evm"] = "header"
    /\ \E base \in BaseFees, n \in Advance :
          /\ header' = [number |-> target - 1 + n, baseFeePerGas |-> base]
          /\ tx' = IF base # 0
                   THEN [tx EXCEPT !.maxFeePerGas = base * 2]
                   ELSE [tx EXCEPT !.gasPrice = @ * 2]
          /\ target' = target + n
    /\ xpc' = [xpc EXCEPT !["evm"] = "resend"]
    /\ UNCHANGED <<notExecVars, sent, naps, bookVars,
                   xop, ladder, idx, impact, attempts, outcome, ret, ncalls>>

\* _send_bundle lines 88-95: the latest header is read (the head is where it
\* was or further), the gas of the transaction is escalated from it and the
\* transaction is signed again
EvmEscalate ==
    /\ xpc["evm"] = "header"
    /\ \E base \in BaseFees, n \in Advance :
          /\ header' = [number |-> target - 1 + n, baseFeePerGas |-> base]
          /\ tx' = IF base # 0
                   THEN [tx EXCEPT !.maxFeePerGas = base * 2]
                   ELSE [tx EXCEPT !.gasPrice = @ * 2]
    /\ xpc' = [xpc EXCEPT !["evm"] = "resend"]
    /\ UNCHANGED <<notExecVars, sent, naps, bookVars,
                   xop, ladder, idx, impact, attempts, outcome, ret, target, ncalls>>

\* _send_bundle line 96: the second bundle fails and its error leaves the call
EvmResendFails ==
    /\ xpc["evm"] = "resend"
    /\ attempts' = [attempts EXCEPT !["evm"] = @ + 1]
    /\ sent' = [sent EXCEPT !["evm"] = Append(@, EvmBundle(tx, target))]
    /\ Ends("evm", "EXHAUSTED", <<>>)
    /\ UNCHANGED <<notExecVars, naps, header, bookVars,
                   xop, ladder, idx, impact, tx, target, ncalls>>

\* a request that is no submission fails (the quote, the token supply, the
\* swap transaction, the block number, the header): the error leaves the call
RequestFails(c) ==
    /\ xpc[c] \in {"supply", "quote", "swap", "block", "header"}
    /\ Ends(c, "ERROR", <<>>)
    /\ UNCHANGED <<notExecVars, sent, naps, header, bookVars,
                   xop, ladder, idx, impact, attempts, tx, target, ncalls>>

\* the task of the call is cancelled while it waits
Cancel(c) ==
    /\ xpc[c] \notin {"idle", "done"}
    /\ Ends(c, "CANCELLED", <<>>)
    /\ UNCHANGED <<notExecVars, sent, naps, header, bookVars,
                   xop, ladder, idx, impact, attempts, tx, target, ncalls>>

\* the caller takes the outcome: after a confirmed submission it calls the
\* book, after any other outcome it leaves the book alone
Settle(c) ==
    /\ xpc[c] = "done"
    /\ positions' = IF outcome[c] = "CONFIRMED"
                    THEN SeqRun(positions, BookCall(c))[1]
                    ELSE positions
    /\ xpc' = [xpc EXCEPT ![c] = "idle"]
    /\ xop' = [xop EXCEPT ![c] = "none"]
    /\ ladder' = [ladder EXCEPT ![c] = <<>>]
    /\ idx' = [idx EXCEPT ![c] = 0]
    /\ impact' = [impact EXCEPT ![c] = NoImpact]
    /\ attempts' = [attempts EXCEPT ![c] = 0]
    /\ outcome' = [outcome EXCEPT ![c] = "none"]
    /\ ret' = [ret EXCEPT ![c] = <<>>]
    /\ tx' = IF c = "evm" THEN NoTx ELSE tx
    /\ target' = IF c = "evm" THEN 0 ELSE target
    /\ sent' = [sent EXCEPT ![c] = <<>>]
    /\ naps' = [naps EXCEPT ![c] = <<>>]
    /\ header' = IF c = "evm" THEN NoHeader ELSE header
    /\ UNCHANGED <<notExecVars, bookRest, ncalls>>

InitExec ==
    /\ xpc = [c \in Chains |-> "idle"]
    /\ xop = [c \in Chains |-> "none"]
    /\ ladder = [c \in Chains |-> <<>>]
    /\ idx = [c \in Chains |-> 0]
    /\ impact = [c \in Chains |-> NoImpact]
    /\ attempts = [c \in Chains |-> 0]
    /\ outcome = [c \in Chains |-> "none"]
    /\ ret = [c \in Chains |-> <<>>]
    /\ tx = NoTx
    /\ target = 0
    /\ ncalls = 0
    /\ sent = [c \in Chains |-> <<>>]
    /\ naps = [c \in Chains |-> <<>>]
    /\ header = NoHeader

ExecNext ==
    \/ \E c \in Chains : CallBuy(c)
    \/ \E c \in Chains : CallSell(c)
    \/ SolSupply
    \/ SolQuote
    \/ SolSwap
    \/ SolSendOk
    \/ SolSendFails
    \/ SolNextRung
    \/ EvmQuote
    \/ EvmTarget
    \/ EvmSendOk
    \/ EvmSendFails
    \/ EvmEscalate
    \/ EvmResendFails
    \/ \E c \in Chains : RequestFails(c)
    \/ \E c \in Chains : Cancel(c)
    \/ \E c \in Chains : Settle(c)

(***************************************************************************)
(* The risk configuration and the risk evaluator: core/risk.py; the risk   *)
(* loop that calls them.                                                   *)
(***************************************************************************)
\* os.getenv gives the default for a variable that is not set
Unset == "<unset>"

EnvRatios == {Unset, "0.02", "1", "0", "-1", "1.5", "not_a_decimal"}

EnvTtls == {Unset, "86400", "60", "0", "-5", "1.5", "not_an_int"}

\* Decimal(text): <<value>>, or <<>> when InvalidOperation is raised
ParseDecimal(text) ==
    CASE text = "0.02" -> <<Dec(1, 50)>>
      [] text = "1"    -> <<DecInt(1)>>
      [] text = "0"    -> <<Zero>>
      [] text = "-1"   -> <<DecInt(-1)>>
      [] text = "1.5"  -> <<Dec(3, 2)>>
      [] OTHER         -> <<>>

\* int(text): <<value>>, or <<>> when ValueError is raised
ParseInt(text) ==
    CASE text = "86400" -> <<DEFAULT_TTL>>
      [] text = "60"    -> <<60>>
      [] text = "0"     -> <<0>>
      [] text = "-5"    -> <<-5>>
      [] OTHER          -> <<>>

\* os.getenv(name, default)
Getenv(name, default) == IF env[name] = Unset THEN default ELSE env[name]

NoCfg == [MIRROR_RATIO |-> <<>>, TTL_SECONDS |-> <<>>]

\* lines 14-23: the module reads its two variables when it is imported; a
\* value that does not parse raises ValueError and the import fails
LoadConfig ==
    /\ boot = "start"
    /\ LET ratio == ParseDecimal(Getenv("MIRROR_RATIO", "0.02"))
           ttl   == ParseInt(Getenv("TTL_SECONDS", "86400"))
       IN  IF ratio = <<>> \/ ttl = <<>>
           THEN /\ boot' = "fatal"
                /\ cfg' = [MIRROR_RATIO |-> ratio, TTL_SECONDS |-> <<>>]
           ELSE /\ boot' = "running"
                /\ cfg' = [MIRROR_RATIO |-> ratio, TTL_SECONDS |-> ttl]
    /\ UNCHANGED <<notRiskVars, bookVars, env, time, rpc, watched, bal, verdict>>

\* a variant of should_exit: the drawdown test is strict
should_exit_strict(position, wallet_balance, t, ttl) ==
    IF /\ DecLt(Zero, position.size)
       /\ DecLt(DecDiv(wallet_balance, position.size), Dec(1, 10))
    THEN TRUE
    ELSE t - position.opened_at > ttl

\* a variant of should_exit: the deadline fires in the first second after the
\* time-to-live only
should_exit_window(position, wallet_balance, t, ttl) ==
    IF /\ DecLt(Zero, position.size)
       /\ DecLe(DecDiv(wallet_balance, position.size), Dec(1, 10))
    THEN TRUE
    ELSE t - position.opened_at = ttl + 1

\* a variant of should_exit: there is no deadline
should_exit_drawdown(position, wallet_balance, t, ttl) ==
    /\ DecLt(Zero, position.size)
    /\ DecLe(DecDiv(wallet_balance, position.size), Dec(1, 10))

\* should_exit, lines 37-49, at time t with TTL_SECONDS = ttl (the division of
\* two finite decimals by a positive size raises no InvalidOperation)
should_exit(position, wallet_balance, t, ttl) ==
    IF /\ DecLt(Zero, position.size)
       /\ DecLe(DecDiv(wallet_balance, position.size), Dec(1, 10))
    THEN TRUE
    ELSE t - position.opened_at > ttl

\* the instants the clock shows: the opening times, and the time-to-live and
\* one second more after each of them
Clock ==
    {1, 2} \cup { o + t + d : o \in {1, 2}, t \in {60, DEFAULT_TTL}, d \in {0, 1} }

\* the balances the oracle reports
Balances == {DecInt(0), DecInt(9), DecInt(10), DecInt(11), DecInt(100)}

\* the positions the book can hold when the risk loop starts
Held ==
    { Position("w1", "X", DecInt(s), DecInt(10), o, o, "txA") :
        s \in {100, 0}, o \in {1, 2} }

NoKey == <<>>

\* time passes
Tick ==
    /\ \E t \in Clock :
        /\ t > time
        /\ time' = t
    /\ UNCHANGED <<notRiskVars, bookVars, env, boot, cfg, rpc, watched, bal, verdict>>

\* the risk loop: for a key of the book, ask the oracle for the balance and
\* apply should_exit; if it holds, call mirror_sell
Scan ==
    /\ boot = "running"
    /\ rpc = "idle"
    /\ \E key \in DOMAIN positions, b \in Balances :
        LET exit == should_exit(positions[key], b, time, cfg.TTL_SECONDS[1])
        IN  /\ bal' = <<b>>
            /\ verdict' = exit
            /\ rpc' = IF exit THEN "sell" ELSE "idle"
            /\ watched' = IF exit THEN key ELSE NoKey
    /\ UNCHANGED <<notRiskVars, bookVars, env, boot, cfg, time>>

\* the risk loop: mirror_sell succeeded, close(wallet, token) is called
SellOk ==
    /\ rpc = "sell"
    /\ positions' = SeqRun(positions, CloseCall(watched[1], watched[2]))[1]
    /\ rpc' = "idle"
    /\ watched' = NoKey
    /\ UNCHANGED <<notRiskVars, bookRest, env, boot, cfg, time, bal, verdict>>

\* the risk loop: mirror_sell failed, the position is left for the next scan
SellFails ==
    /\ rpc = "sell"
    /\ rpc' = "idle"
    /\ watched' = NoKey
    /\ UNCHANGED <<notRiskVars, bookVars, env, boot, cfg, time, bal, verdict>>

InitRisk ==
    /\ env = [MIRROR_RATIO |-> Unset, TTL_SECONDS |-> Unset]
    /\ boot = "start"
    /\ cfg = NoCfg
    /\ time = 1
    /\ rpc = "idle"
    /\ watched = NoKey
    /\ bal = <<>>
    /\ verdict = FALSE

\* the process starts with any values of its two variables, over a book that
\* holds one position
InitHeld ==
    /\ InitBus /\ InitFeed /\ InitEvm /\ InitExec
    /\ mirror_ratio \in Ratios
    /\ \E p \in Held :
        /\ positions = Store(<<>>, <<p.wallet, p.token>>, p)
        /\ time = p.opened_at
    /\ lock = NoTask
    /\ pc = [t \in Tasks |-> "idle"]
    /\ call = [t \in Tasks |-> NoCall]
    /\ result = [t \in Tasks |-> NoResult]
    /\ nops = 0
    /\ seqBook = <<>>
    /\ expect = [t \in Tasks |-> NoResult]
    /\ env \in [MIRROR_RATIO : EnvRatios, TTL_SECONDS : EnvTtls]
    /\ boot = "start"
    /\ cfg = NoCfg
    /\ rpc = "idle"
    /\ watched = NoKey
    /\ bal = <<>>
    /\ verdict = FALSE

RiskNext ==
    \/ LoadConfig
    \/ Tick
    \/ Scan
    \/ SellOk
    \/ SellFails

(***************************************************************************)
(* Specifications.                                                         *)
(***************************************************************************)
Init == InitBook /\ InitBus /\ InitFeed /\ InitEvm /\ InitExec /\ InitRisk

\* the position book and its callers
Next == BookNext

Spec == Init /\ [][Next]_vars

\* a task waiting for the lock or running under it takes its next statement
Step(t) ==
    \/ Acquire(t)
    \/ OpenCheck(t)
    \/ OpenInsert(t)
    \/ UpdateGet(t)
    \/ UpdateWrite(t)
    \/ ClosePop(t)

\* the position book with callers of one key under the scheduling of asyncio:
\* the event loop runs every task that is ready
NextFair ==
    \E t \in Tasks :
        \/ CallKey(t)
        \/ Acquire(t)
        \/ OpenCheck(t)
        \/ OpenInsert(t)
        \/ UpdateGet(t)
        \/ UpdateWrite(t)
        \/ ClosePop(t)
        \/ Return(t)

SpecFair == Init /\ [][NextFair]_vars /\ \A t \in Tasks : WF_vars(Step(t))

\* the event bus, its producers and its consumer
NextBus == BusNext

SpecBus == Init /\ [][NextBus]_vars

\* the feed subscribers and what they put on the bus
NextFeed == FeedNext

SpecFeed == Init /\ [][NextFeed]_vars

\* the EVM swap-log subscriber
NextEvm == EvmNext

SpecEvm == Init /\ [][NextEvm]_vars

\* the execution engines and their caller
NextExec == ExecNext

SpecExec == Init /\ [][NextExec]_vars

\* the risk configuration, the risk evaluator and the risk loop, over a book
\* that holds one position
NextRisk == RiskNext

SpecRisk == InitHeld /\ [][NextRisk]_vars

\* the same, with a risk loop that keeps scanning and a mirror_sell that does
\* not fail for ever
SpecRiskFair == SpecRisk /\ WF_vars(Scan) /\ SF_vars(SellOk)

(***************************************************************************)
(* Properties of the position book.                                        *)
(***************************************************************************)
\* the statements of open, update and close that run under the lock
Critical == {"open", "insert", "update", "write", "close"}

\* task t takes the step that leaves statement p
Leaves(t, p) == pc[t] = p /\ pc'[t] # p

\* every key but key holds in the book after the step what it held before
OthersKept(key) ==
    /\ DOMAIN positions' \ {key} = DOMAIN positions \ {key}
    /\ \A k \in DOMAIN positions \ {key} : positions'[k] = positions[k]

\* C1: the book files every position under its own (wallet, token), so it
\* holds at most one position per key; an open on a key that is present
\* raises the key-exists error and leaves the whole book as it was, and an
\* open that inserts never replaces a position.
C1_DuplicateOpenFails ==
    /\ [](\A k \in DOMAIN positions :
            <<positions[k].wallet, positions[k].token>> = k)
    /\ [][\A t \in Tasks :
            /\ (Leaves(t, "open") /\ call[t].key \in DOMAIN positions)
                => /\ pc'[t] = "done"
                   /\ result'[t] = [status |-> "ValueError", pos |-> <<>>]
                   /\ positions' = positions
            /\ Leaves(t, "insert") => call[t].key \notin DOMAIN positions]_vars

\* C1 witness: an open has failed on a key that holds a position
C1_Witness ==
    \E t \in Tasks :
        /\ pc[t] = "done"
        /\ call[t].kind = "open"
        /\ result[t].status = "ValueError"
        /\ call[t].key \in DOMAIN positions

\* C2: an update or a close on a key that is absent raises the key-missing
\* error and leaves the book exactly as it was.
C2_MissingKeyFails ==
    [][\A t \in Tasks :
        ((Leaves(t, "update") \/ Leaves(t, "close"))
            /\ call[t].key \notin DOMAIN positions)
            => /\ pc'[t] = "done"
               /\ result'[t] = [status |-> "KeyError", pos |-> <<>>]
               /\ positions' = positions]_vars

\* C2 witness: an update and a close have both failed on absent keys
C2_Witness ==
    \E t, u \in Tasks :
        /\ pc[t] = "done" /\ call[t].kind = "update"
        /\ result[t].status = "KeyError"
        /\ pc[u] = "done" /\ call[u].kind = "close"
        /\ result[u].status = "KeyError"
        /\ call[t].key \notin DOMAIN positions
        /\ call[u].key \notin DOMAIN positions

\* C3: a successful update adds the event's amount_out_min, unscaled, to the
\* size, sets avg_price to (avg * size + (in / out) * out) / new size and
\* last_update to the event's timestamp; on a position of size 5 and price
\* 10 the event (60, 5) gives size 10 and price 11.
C3_UpdateArithmetic ==
    [][\A t \in Tasks :
        Leaves(t, "write") =>
            LET k   == call[t].key
                e   == call[t].event[1]
                old == positions[k]
                new == positions'[k]
                sz  == DecAdd(old.size, e.amount_out_min)
            IN  /\ k \in DOMAIN positions /\ k \in DOMAIN positions'
                /\ new.size = sz
                /\ new.avg_price =
                     DecDiv(DecAdd(DecMul(old.avg_price, old.size),
                                   DecMul(DecDiv(e.amount_in, e.amount_out_min),
                                          e.amount_out_min)),
                            sz)
                /\ new.last_update = e.timestamp
                /\ result'[t] = [status |-> "ok", pos |-> <<>>]
                /\ (/\ old.size = DecInt(5) /\ old.avg_price = DecInt(10)
                    /\ e.amount_in = DecInt(60) /\ e.amount_out_min = DecInt(5))
                    => (new.size = DecInt(10) /\ new.avg_price = DecInt(11))]_vars

\* C3 witness: open (100, 10) at ratio 1/2, then update (60, 5): size 10, price 11
C3_Witness ==
    \E t \in Tasks :
        /\ pc[t] = "done"
        /\ call[t].kind = "update"
        /\ result[t].status = "ok"
        /\ call[t].event[1].amount_in = DecInt(60)
        /\ call[t].event[1].amount_out_min = DecInt(5)
        /\ mirror_ratio = Dec(1, 2)
        /\ call[t].key \in DOMAIN positions
        /\ positions[call[t].key].size = DecInt(10)
        /\ positions[call[t].key].avg_price = DecInt(11)
        /\ positions[call[t].key].last_update = call[t].event[1].timestamp

\* C4: a successful open inserts and returns the position with the event's
\* wallet and token_out, size amount_out_min * ratio, price
\* amount_in / amount_out_min, opened_at = last_update = the event's
\* timestamp and origin_tx = the event's tx_hash.
C4_OpenCreates ==
    [][\A t \in Tasks :
        Leaves(t, "insert") =>
            LET e == call[t].event[1]
                p == [wallet      |-> e.wallet,
                      token       |-> e.token_out,
                      size        |-> DecMul(e.amount_out_min, call[t].ratio[1]),
                      avg_price   |-> DecDiv(e.amount_in, e.amount_out_min),
                      opened_at   |-> e.timestamp,
                      last_update |-> e.timestamp,
                      origin_tx   |-> e.tx_hash]
            IN  /\ <<e.wallet, e.token_out>> \in DOMAIN positions'
                /\ positions'[<<e.wallet, e.token_out>>] = p
                /\ result'[t] = [status |-> "ok", pos |-> <<p>>]]_vars

\* C4 witness: the event (100, 10) opened at ratio 1/2 a position of size 5, price 10
C4_Witness ==
    \E t \in Tasks :
        /\ pc[t] = "done"
        /\ call[t].kind = "open"
        /\ result[t].status = "ok"
        /\ call[t].ratio[1] = Dec(1, 2)
        /\ call[t].event[1].amount_in = DecInt(100)
        /\ call[t].key \in DOMAIN positions
        /\ positions[call[t].key] = result[t].pos[1]
        /\ result[t].pos[1].size = DecInt(5)
        /\ result[t].pos[1].avg_price = DecInt(10)
        /\ result[t].pos[1].origin_tx = call[t].event[1].tx_hash

\* C5, as claimed: every position in the book has size > 0 and avg_price > 0
C5_SizeAndPricePositive ==
    \A k \in DOMAIN positions :
        /\ DecLt(Zero, positions[k].size)
        /\ DecLt(Zero, positions[k].avg_price)

\* C6, as claimed: every position in the book has opened_at <= last_update
C6_OpenedBeforeLastUpdate ==
    \A k \in DOMAIN positions :
        positions[k].opened_at <= positions[k].last_update

\* C7: a successful close removes the key and returns the position as it
\* stood in the book, leaving every other key alone; the key is then absent,
\* and an open on an absent key is not rejected.
C7_CloseRemovesAndReturns ==
    [][\A t \in Tasks :
        /\ (Leaves(t, "close") /\ call[t].key \in DOMAIN positions)
            => /\ pc'[t] = "done"
               /\ result'[t] = [status |-> "ok", pos |-> <<positions[call[t].key]>>]
               /\ call[t].key \notin DOMAIN positions'
               /\ OthersKept(call[t].key)
        /\ (Leaves(t, "open") /\ call[t].key \notin DOMAIN positions)
            => pc'[t] = "insert"]_vars

\* C7 witness: a key was closed, and the other
\* task has since opened the same key again
C7_Witness ==
    \E t, u \in Tasks :
        /\ pc[t] = "done" /\ call[t].kind = "close" /\ result[t].status = "ok"
        /\ pc[u] = "done" /\ call[u].kind = "open" /\ result[u].status = "ok"
        /\ call[u].key = call[t].key
        /\ call[t].key \in DOMAIN positions
        /\ positions[call[t].key] = result[u].pos[1]

\* C8: at most one task is inside the critical section, the task inside is
\* the one holding the lock and is at no await; whenever the lock is free the
\* book is the book of the same calls run one after another in the order of
\* their lock acquisitions, and every finished call has returned what it
\* returns in that sequential run.
C8_Linearizable ==
    /\ \A t \in Tasks : (pc[t] \in Critical) <=> (lock = t)
    /\ \A t \in Tasks : lock = t => pc[t] # "acquire"
    /\ lock = NoTask => positions = seqBook
    /\ \A t \in Tasks : pc[t] = "done" => result[t] = expect[t]

\* C8 witness: two tasks have opened the same key; one got the position, the
\* other the key-exists error
C8_Witness ==
    \E t, u \in Tasks :
        /\ t # u
        /\ pc[t] = "done" /\ call[t].kind = "open" /\ result[t].status = "ok"
        /\ pc[u] = "done" /\ call[u].kind = "open"
        /\ result[u].status = "ValueError"
        /\ call[u].key = call[t].key

(***************************************************************************)
(* Properties of the event bus.                                            *)
(***************************************************************************)
\* the last n elements of a sequence
LastN(q, n) ==
    IF Len(q) <= n THEN q ELSE SubSeq(q, Len(q) - n + 1, Len(q))

\* C9, as claimed: the bus never holds more than N events
C9_BusBounded == Len(event_bus) <= MAX_QUEUE_SIZE

\* C10, as claimed: with no dequeue and no enqueue in flight, the bus holds
\* exactly the N most recently enqueued events in arrival order, and one drop
\* is recorded for every event beyond N
C10_DropOldestWhenFull ==
    (delivered = <<>> /\ \A f \in Feeds : fpc[f] = "recv")
        => /\ event_bus = LastN(enqueued, MAX_QUEUE_SIZE)
           /\ drops = Len(enqueued) - Len(event_bus)

\* the place of an event in a sequence of distinct events (0 when absent)
IndexOf(q, e) ==
    IF \E i \in 1..Len(q) : q[i] = e
    THEN CHOOSE i \in 1..Len(q) : q[i] = e
    ELSE 0

\* what the consumer has taken followed by what it will take next
Consumed == delivered \o event_bus

\* C11: the events of one feed reach the consumer in the order the feed
\* received them, and what the consumer takes, drops apart, is in the order
\* of the puts: the bus is first in, first out over what the drops leave
C11_FeedOrderKept ==
    /\ \A i, j \in 1..Len(delivered) :
           (i < j /\ delivered[i].feed = delivered[j].feed)
               => delivered[i].id < delivered[j].id
    /\ \A i, j \in 1..Len(Consumed) :
           i < j => /\ IndexOf(enqueued, Consumed[i]) > 0
                    /\ IndexOf(enqueued, Consumed[i])
                           < IndexOf(enqueued, Consumed[j])

\* the consumer took two events of one feed around a dropped one
C11_Witness ==
    /\ drops > 0
    /\ \E i, j \in 1..Len(delivered) :
           /\ i < j
           /\ delivered[i].feed = delivered[j].feed
           /\ delivered[j].id > delivered[i].id + 1
           /\ \E k \in 1..Len(enqueued) :
                  /\ enqueued[k].feed = delivered[i].feed
                  /\ enqueued[k].id > delivered[i].id
                  /\ enqueued[k].id < delivered[j].id

(***************************************************************************)
(* Properties of the feed subscribers.                                     *)
(***************************************************************************)
RECURSIVE Pow2(_)
Pow2(k) == IF k = 0 THEN 1 ELSE 2 * Pow2(k - 1)

Min(a, b) == IF a < b THEN a ELSE b

\* C13: the backoff of a subscriber is always within [1, 30]; the sleep after
\* the k-th failure in a row lasts min(2^(k-1), 30) seconds; and once the
\* subscription request has been sent the backoff is 1 again
C13_BackoffSchedule ==
    \A f \in Feeds :
        /\ backoff[f] >= 1 /\ backoff[f] <= 30
        /\ spc[f] = "sleep" => /\ fails[f] >= 1
                               /\ slept[f] = Min(Pow2(fails[f] - 1), 30)
        /\ spc[f] \in {"listen", "handle", "quote", "put"}
               => backoff[f] = 1 /\ fails[f] = 0

\* a subscriber is in its seventh sleep in a row, the second of 30 seconds
C13_Witness ==
    \E f \in Feeds :
        /\ spc[f] = "sleep" /\ fails[f] = 7 /\ slept[f] = 30

\* C14, as claimed: an event is on the bus only if the account of its swap is
\* one of the watched addresses, and an EVM event is published only if its
\* sender or recipient is a watched address, whatever the case of the spelling
C14_OnlyWatchedEnqueued ==
    /\ \A i \in 1..Len(enqueued) : enqueued[i].wallet \in addresses
    /\ \A i \in 1..Len(published) :
           \E a \in WalletsFile :
               Lower(a) \in {published[i].sender, published[i].recipient}

\* a swap message without the fields the event is made of
LacksFields(f, msg) ==
    /\ Field(SwapResult(f, msg), "type", None) = "swap"
    /\ \/ {"account", "transaction"} \ DOMAIN SwapResult(f, msg) # {}
       \/ {"route", "amountIn"} \ DOMAIN SwapInfo(f, msg) # {}

\* a frame that cannot be decoded: no JSON, a field missing, or a value the
\* decoder fails on
Undecodable(f, fr) ==
    \/ ~fr.json
    \/ fr.json /\ LacksFields(f, fr.data)
    \/ fr.json /\ BeforeQuote(f, fr.data) = "raise"

\* C15, as claimed: a frame that cannot be decoded, or a failed quote lookup,
\* leaves the subscriber listening on the same connection with its backoff
\* unchanged, and puts no event on the bus
C15_UndecodableKeepsStream ==
    [][\A f \in Feeds :
          /\ (spc[f] = "handle" /\ ~frame[f].json /\ spc'[f] # "handle")
                => spc'[f] = "listen" /\ backoff'[f] = backoff[f]
          /\ (spc[f] = "handle" /\ frame[f].json /\ spc'[f] = "listen"
                /\ BeforeQuote(f, frame[f].data) = "raise")
                => backoff'[f] = backoff[f] /\ enqueued' = enqueued
          /\ (spc[f] = "quote" /\ spc'[f] \notin {"quote", "put"})
                => /\ spc'[f] = "listen" /\ backoff'[f] = backoff[f]
                   /\ enqueued' = enqueued
          /\ (spc[f] = "put" /\ spc'[f] # "put")
                => ~Undecodable(f, frame[f])]_vars

\* a field that is present and not empty
Present(x) == x \notin {None, ""}

\* C16, as claimed: every event on the bus has a positive amount_out_min, a
\* non-negative amount_in, and a wallet, tokens and a transaction hash that are
\* present and not empty
C16_EnqueuedEventsValid ==
    \A i \in 1..Len(enqueued) :
        /\ DecLt(Zero, enqueued[i].amountOutMin)
        /\ ~DecLt(enqueued[i].amountIn, Zero)
        /\ Present(enqueued[i].wallet)
        /\ Present(enqueued[i].tokenIn)
        /\ Present(enqueued[i].tokenOut)
        /\ Present(enqueued[i].txHash)

\* C12, as claimed: no subscriber ever leaves its task: after a failure it
\* sleeps and connects again
C12_SubscribersNeverReturn ==
    /\ epc \notin {"finally", "returned"}
    /\ \A f \in Feeds : spc[f] \notin {"finally", "returned"}

(***************************************************************************)
(* Properties of the execution engines.                                    *)
(***************************************************************************)
\* the quote of the call has been read
Quoted(c) == impact[c] # NoImpact

\* C17, as claimed: on both chains a buy whose quote reports a price impact
\* over 0.40 submits no bundle and ends with SlippageExceeded, and a buy whose
\* impact is 0.40 or less is not rejected for slippage
C17_SlippageRejectedBeforeSubmit ==
    \A c \in Chains :
        (xop[c] = "buy" /\ Quoted(c)) =>
            /\ DecLt(IMPACT_LIMIT, impact[c])
                  => /\ attempts[c] = 0
                     /\ (xpc[c] = "done" /\ outcome[c] \notin {"CANCELLED", "ERROR"})
                           => outcome[c] = "REJECTED_SLIPPAGE"
            /\ ~DecLt(IMPACT_LIMIT, impact[c])
                  => outcome[c] # "REJECTED_SLIPPAGE"

\* C18, as claimed: on both chains a call never makes more than MAX_RETRIES
\* submissions, a call whose submissions all failed has made exactly
\* MAX_RETRIES of them and raises the last error, and a call returns its
\* (tx_id, price) at its first successful submission
C18_RetriesUpToMax ==
    \A c \in Chains :
        /\ attempts[c] <= MAX_RETRIES
        /\ outcome[c] = "EXHAUSTED" => attempts[c] = MAX_RETRIES
        /\ outcome[c] = "CONFIRMED" => ret[c] # <<>> /\ xpc[c] = "done"

\* C19, as claimed: a call that was not cancelled and whose requests were
\* answered ends confirmed with a (tx_id, price), exhausted with the last
\* error, or rejected for slippage; whatever the ladder, it never returns
\* without a (tx_id, price)
C19_OneTerminalState ==
    \A c \in Chains :
        (xpc[c] = "done" /\ outcome[c] \notin {"CANCELLED", "ERROR"}) =>
            /\ outcome[c] \in {"CONFIRMED", "EXHAUSTED", "REJECTED_SLIPPAGE"}
            /\ outcome[c] = "CONFIRMED" <=> ret[c] # <<>>

\* C20: a step of mirror_buy or mirror_sell, whatever its outcome (confirmed,
\* rejected for slippage, exhausted, cancelled in flight), leaves the position
\* book as it is; the book changes only when the caller takes a confirmed
\* outcome and calls open, update or close
C20_EngineLeavesBook ==
    [][positions' # positions =>
          \E c \in Chains :
              /\ xpc[c] = "done" /\ outcome[c] = "CONFIRMED"
              /\ xpc'[c] = "idle"
              /\ positions' = SeqRun(positions, BookCall(c))[1]]_vars

\* a position is held, one engine's call has just been confirmed and the
\* other's was cancelled in flight after a submission
C20_Witness ==
    /\ Has(positions, ExecKey)
    /\ xpc["sol"] = "done" /\ outcome["sol"] = "CONFIRMED"
    /\ xpc["evm"] = "done" /\ outcome["evm"] = "CANCELLED"
    /\ attempts["evm"] = 1

(***************************************************************************)
(* Properties of the risk configuration, the evaluator and the risk loop.  *)
(***************************************************************************)
\* the risk loop takes the step that applies should_exit
Scans ==
    /\ boot = "running" /\ rpc = "idle"
    /\ time' = time /\ positions' = positions /\ bal' # <<>>

\* the time-to-live values and the position of the spec's scenarios
Ttls == {60, DEFAULT_TTL}

P100(opened) == Position("w1", "X", DecInt(100), DecInt(10), opened, opened, "txA")

\* C21: should_exit(p, b) is true exactly when p.size > 0 and
\* b / p.size <= 0.1, or now - p.opened_at > TTL. For size 100 the balance 10
\* gives true and 11 false; at an age of exactly TTL the deadline does not
\* hold, at TTL + 1 the answer is true for every balance.
C21_ShouldExitRule ==
    /\ [](\A o \in {1, 2}, ttl \in Ttls :
            /\ should_exit(P100(o), DecInt(10), o, ttl)
            /\ ~should_exit(P100(o), DecInt(11), o, ttl)
            /\ ~should_exit(P100(o), DecInt(11), o + ttl, ttl)
            /\ \A b \in Balances : should_exit(P100(o), b, o + ttl + 1, ttl))
    /\ [][Scans =>
            \A key \in DOMAIN positions :
                LET p == positions[key]
                    b == bal'[1]
                IN  verdict' =
                        \/ p.size.n > 0 /\ 10 * b.n * p.size.d <= p.size.n * b.d
                        \/ time - p.opened_at > cfg.TTL_SECONDS[1]]_vars

\* C21 witness: a position of size 100 whose wallet holds 100 is sold one
\* second after the default time-to-live
C21_Witness ==
    /\ rpc = "sell" /\ verdict
    /\ bal = <<DecInt(100)>>
    /\ cfg.TTL_SECONDS = <<DEFAULT_TTL>>
    /\ \E key \in DOMAIN positions :
        /\ positions[key].size = DecInt(100)
        /\ time - positions[key].opened_at = DEFAULT_TTL + 1

\* C22: for a fixed position and balance should_exit is monotone in time: if
\* it is true at t it is true at every later t'.
C22_ExitMonotone ==
    /\ [](\A p \in Held, b \in Balances, ttl \in Ttls, t \in Clock, u \in Clock :
            (t < u /\ should_exit(p, b, t, ttl)) => should_exit(p, b, u, ttl))
    /\ [][(time' > time /\ boot = "running") =>
            \A key \in DOMAIN positions, b \in Balances :
                should_exit(positions[key], b, time, cfg.TTL_SECONDS[1])
                    => should_exit(positions[key], b, time', cfg.TTL_SECONDS[1])]_vars
    /\ [][(Scans /\ verdict /\ bal' = bal) => verdict']_vars

\* C22 witness: a scan finds the exit condition true for a wallet holding its
\* full balance, more than a second after the deadline passed
C22_Witness ==
    /\ rpc = "sell" /\ verdict
    /\ bal = <<DecInt(100)>>
    /\ \E key \in DOMAIN positions :
        time - positions[key].opened_at > cfg.TTL_SECONDS[1] + 1

\* C23, as claimed: the process runs only with MIRROR_RATIO in (0, 1] and a
\* positive TTL_SECONDS; every other value of either variable is fatal at
\* startup.
C23_ConfigValidated ==
    boot = "running" =>
        /\ DecLt(Zero, cfg.MIRROR_RATIO[1])
        /\ DecLe(cfg.MIRROR_RATIO[1], DecInt(1))
        /\ cfg.TTL_SECONDS[1] > 0

\* a position of the book is past its deadline
Aged(key) ==
    /\ boot = "running"
    /\ key \in DOMAIN positions
    /\ time - positions[key].opened_at > cfg.TTL_SECONDS[1]

Body(f) ==
    IF f = "helius" THEN Field(Field(frame[f].data, "params", Empty), "result", Empty)
    ELSE Field(frame[f].data, "data", Empty)

Legs(f) == IF f = "helius" THEN Field(Body(f), "swap", Empty) ELSE Body(f)

\* the frame is JSON of another type than "swap", or its route has fewer than
\* two hops
Skipped(f) ==
    /\ frame[f].json
    /\ \/ Field(Body(f), "type", None) # "swap"
       \/ Len(Field(Legs(f), "route", <<>>)) < 2

\* C25: a decoder returns none, without calling the quote oracle, for a
\* message whose type is not "swap" or whose route has fewer than two hops;
\* for every other well-formed message the event it returns has wallet =
\* account, token_in = route[0], token_out = route[-1], amount_in = amountIn,
\* tx_hash = transaction, and as amount_out_min the amount the oracle
\* returned for (route[0], route[-1], amountIn).
C25_DecodersMapFields ==
    /\ [][\A f \in Feeds :
            (spc[f] = "handle" /\ spc'[f] # "handle" /\ Skipped(f))
                => /\ spc'[f] = "listen"
                   /\ evt'[f] = NoEvt
                   /\ quoteCall'[f] = NoQuoteCall
                   /\ event_bus' = event_bus]_vars
    /\ [](\A f \in Feeds :
            /\ quoteCall[f] # NoQuoteCall => ~Skipped(f)
            /\ spc[f] = "put" =>
                LET route == Legs(f).route
                IN  /\ evt[f].wallet = Field(Body(f), "account", None)
                    /\ evt[f].tokenIn = Head(route)
                    /\ evt[f].tokenOut = route[Len(route)]
                    /\ evt[f].amountIn = DecInt(Legs(f).amountIn.v)
                    /\ evt[f].txHash = Field(Body(f), "transaction", None)
                    /\ quoteCall[f].args =
                          <<Head(route), route[Len(route)], Legs(f).amountIn.v>>
                    /\ quoteCall[f].amount = <<evt[f].amountOutMin>>)

\* C25 witness: a swap routed over three hops was decoded, its output token
\* the last hop of the route
C25_Witness ==
    \E f \in Feeds :
        /\ spc[f] = "put"
        /\ Len(Legs(f).route) = 3
        /\ evt[f].tokenOut = "M3"
        /\ evt[f].wallet = "w1"
        /\ evt[f].amountOutMin = DecInt(1500)

(***************************************************************************)
(* Properties of the submissions of the execution engines.                 *)
(***************************************************************************)
\* C26: when the first submission of _send_bundle has failed, the
\* transaction of the second one has max_fee_per_gas = 2 * base_fee if the
\* latest block has a base fee (20 Gwei gives 40 Gwei) and a doubled
\* gas_price otherwise; it is signed again, and the second bundle is sent for
\* the block number of the first, computed once, wherever the head is.
C26_GasEscalation ==
    /\ Len(sent["evm"]) <= 2
    /\ \A i \in DOMAIN sent["evm"] :
          sent["evm"][i].signed_transaction
              = <<"signed", sent["evm"][i].tx.gasPrice, sent["evm"][i].tx.maxFeePerGas>>
    /\ Len(sent["evm"]) = 2 =>
          LET first  == sent["evm"][1]
              second == sent["evm"][2]
              base   == header.baseFeePerGas
          IN  /\ second.target_block_number = first.target_block_number
              /\ first.target_block_number \in {h + 1 : h \in Heads}
              /\ second.signed_transaction # first.signed_transaction
              /\ base > 0 => /\ second.tx.maxFeePerGas = 2 * base
                             /\ second.tx.gasPrice = first.tx.gasPrice
              /\ base = 20 => second.tx.maxFeePerGas = 40
              /\ base = 0 => /\ second.tx.gasPrice = 2 * first.tx.gasPrice
                             /\ second.tx.maxFeePerGas = first.tx.maxFeePerGas

\* C26 witness: the second bundle went out with 40 Gwei for the block of the
\* first although the head had moved past it
C26_Witness ==
    /\ Len(sent["evm"]) = 2
    /\ header.baseFeePerGas = 20
    /\ sent["evm"][2].tx.maxFeePerGas = 40
    /\ header.number >= sent["evm"][1].target_block_number
    /\ sent["evm"][2].target_block_number = sent["evm"][1].target_block_number

\* C27, as claimed: attempt i of the Solana mirror_buy carries the i-th fee
\* of the ladder, in order and each rung once, with the same signed bundle;
\* after a failed attempt i that is not the last the task sleeps 2^i seconds,
\* and it does not sleep after a success or after the final failure.
C27_FeeLadderAndSleeps ==
    LET s == sent["sol"]
        n == naps["sol"]
    IN  /\ Len(s) <= Len(ladder["sol"])
        /\ \A i \in DOMAIN s :
              /\ s[i].priorityFeeLamports = ladder["sol"][i]
              /\ s[i].bundle = s[1].bundle
        /\ \A i \in DOMAIN n : n[i] = Pow2(i - 1)
        /\ Len(n) <= Len(s)
        /\ xpc["sol"] = "send" => Len(n) = Len(s)
        /\ outcome["sol"] = "CONFIRMED" => Len(n) = Len(s) - 1
        /\ xpc["sol"] = "sleep" => Len(s) < Len(ladder["sol"])
        /\ (outcome["sol"] \in {"EXHAUSTED", "RETURNED_NONE"} /\ Len(s) > 0)
              => Len(n) = Len(s) - 1

(***************************************************************************)
(* Further properties of the position book and of the bus.                 *)
(***************************************************************************)
\* C28: the lock is released on every exit path of open, update and close,
\* the error paths included: a call that is over does not hold it, no state
\* with a waiting caller is stuck, every call that was made gets the lock and
\* ends with a result or an error, and a failed call blocks no later one.
C28_LockAlwaysReleased ==
    /\ [](\A t \in Tasks :
            /\ lock = t <=> pc[t] \in Critical
            /\ pc[t] = "done" => result[t] # NoResult)
    /\ []((\E t \in Tasks : pc[t] = "acquire") => \E u \in Tasks : ENABLED Step(u))
    /\ \A t \in Tasks : (pc[t] = "acquire") ~> (pc[t] = "done")
    /\ \A t \in Tasks :
          (pc[t] = "done" /\ result[t].status # "ok")
              ~> (\A u \in Tasks : pc[u] \in {"idle", "done"})

\* C28 witness: a call has failed and released the lock, and the call that
\* waited behind it has the lock
C28_Witness ==
    \E t, u \in Tasks :
        /\ pc[t] = "done" /\ result[t].status \in {"ValueError", "KeyError"}
        /\ lock = u /\ pc[u] \in Critical

\* the fields of a position that only its opening sets
Identity(p) ==
    [wallet |-> p.wallet, token |-> p.token,
     opened_at |-> p.opened_at, origin_tx |-> p.origin_tx]

\* C29: an open, update or close on key k leaves the position of every other
\* key unchanged; update changes only size, avg_price and last_update of its
\* position; wallet, token, opened_at and origin_tx keep the values the
\* opening event set for as long as the position stays in the book.
C29_FrameOfOperations ==
    /\ [][\A t \in Tasks :
            (\E p \in Critical : Leaves(t, p)) => OthersKept(call[t].key)]_vars
    /\ [][\A t \in Tasks :
            Leaves(t, "insert") =>
                Identity(positions'[call[t].key])
                    = [wallet |-> call[t].event[1].wallet,
                       token |-> call[t].event[1].token_out,
                       opened_at |-> call[t].event[1].timestamp,
                       origin_tx |-> call[t].event[1].tx_hash]]_vars
    /\ [][\A k \in DOMAIN positions \cap DOMAIN positions' :
            Identity(positions'[k]) = Identity(positions[k])]_vars

\* C29 witness: a position opened by one event and updated by a later one
\* stands in the book beside the position of another key
C29_Witness ==
    \E k, j \in DOMAIN positions :
        /\ k # j
        /\ positions[k].origin_tx = "txA" /\ positions[k].opened_at = 1
        /\ positions[k].last_update = 2

\* q is what is left of p when events are taken from its head
SuffixOf(q, p) ==
    /\ Len(q) <= Len(p)
    /\ q = SubSeq(p, Len(p) - Len(q) + 1, Len(p))

====
